---------------------------- MODULE Spec2Model ----------------------------
(***************************************************************************)
(* OpenPyCR: the program compiler (PCRCompiler.parse_program) and the      *)
(* device session protocol (openpcrlib.OpenPCR.sendprogram / readstatus).  *)
(*                                                                         *)
(* Text is modelled character by character: a Python str is a sequence of  *)
(* one-character strings, so that split, strip, int(), float() and the     *)
(* str.format calls of the source are computed, not assumed.               *)
(***************************************************************************)
EXTENDS Integers, Sequences, FiniteSets, TLC

(***************************************************************************)
(* Python str primitives used by the source.                               *)
(***************************************************************************)
Digits == <<"0","1","2","3","4","5","6","7","8","9">>

UpperCase == <<"A","B","C","D","E","F","G","H","I","J","K","L","M",
               "N","O","P","Q","R","S","T","U","V","W","X","Y","Z">>

LowerCase == <<"a","b","c","d","e","f","g","h","i","j","k","l","m",
               "n","o","p","q","r","s","t","u","v","w","x","y","z">>

\* str.strip() / str.split(None) whitespace
Whitespace == {" ", "\t"}

IsDigit(c) == \E i \in 1..10 : Digits[i] = c

DigitVal(c) == (CHOOSE i \in 1..10 : Digits[i] = c) - 1

lower_char(c) ==
    IF \E i \in 1..26 : UpperCase[i] = c
    THEN LowerCase[CHOOSE i \in 1..26 : UpperCase[i] = c]
    ELSE c

RECURSIVE lower(_)
lower(s) == IF s = <<>> THEN <<>> ELSE <<lower_char(Head(s))>> \o lower(Tail(s))

RECURSIVE lstrip(_, _)
lstrip(s, chars) ==
    IF s # <<>> /\ Head(s) \in chars THEN lstrip(Tail(s), chars) ELSE s

RECURSIVE rstrip(_, _)
rstrip(s, chars) ==
    IF s # <<>> /\ s[Len(s)] \in chars
    THEN rstrip(SubSeq(s, 1, Len(s) - 1), chars)
    ELSE s

strip(s, chars) == rstrip(lstrip(s, chars), chars)

\* str.index(c) as a 1-based position, 0 when c does not occur
find(s, c) ==
    IF \E i \in 1..Len(s) : s[i] = c
    THEN CHOOSE i \in 1..Len(s) : s[i] = c /\ \A j \in 1..(i - 1) : s[j] # c
    ELSE 0

\* str.count(c, 0, n)
RECURSIVE count(_, _, _)
count(s, c, n) ==
    IF n = 0 THEN 0
    ELSE count(s, c, n - 1) + (IF s[n] = c THEN 1 ELSE 0)

\* str.split(sep): the pieces between the occurrences of sep ("" gives [""])
RECURSIVE split(_, _)
split(s, sep) ==
    LET i == find(s, sep)
    IN  IF i = 0 THEN <<s>>
        ELSE <<SubSeq(s, 1, i - 1)>> \o split(SubSeq(s, i + 1, Len(s)), sep)

\* str.split(sep, 1)
split1(s, sep) ==
    LET i == find(s, sep)
    IN  IF i = 0 THEN <<s>>
        ELSE <<SubSeq(s, 1, i - 1), SubSeq(s, i + 1, Len(s))>>

\* position of the first whitespace character, 0 when there is none
find_ws(s) ==
    IF \E i \in 1..Len(s) : s[i] \in Whitespace
    THEN CHOOSE i \in 1..Len(s) :
            s[i] \in Whitespace /\ \A j \in 1..(i - 1) : s[j] \notin Whitespace
    ELSE 0

\* str.split(None, 1)
split_ws1(s) ==
    LET t == lstrip(s, Whitespace)
        i == find_ws(t)
        rem == lstrip(SubSeq(t, i, Len(t)), Whitespace)
    IN  IF t = <<>> THEN <<>>
        ELSE IF i = 0 THEN <<t>>
        ELSE IF rem = <<>> THEN <<SubSeq(t, 1, i - 1)>>
        ELSE <<SubSeq(t, 1, i - 1), rem>>

\* str.replace(a, b) for single characters
RECURSIVE replace(_, _, _)
replace(s, a, b) ==
    IF s = <<>> THEN <<>>
    ELSE <<IF Head(s) = a THEN b ELSE Head(s)>> \o replace(Tail(s), a, b)

RECURSIVE join(_, _)
join(parts, sep) ==
    IF parts = <<>> THEN <<>>
    ELSE IF Len(parts) = 1 THEN parts[1]
    ELSE parts[1] \o <<sep>> \o join(Tail(parts), sep)

RECURSIVE concat(_)
concat(parts) == IF parts = <<>> THEN <<>> ELSE Head(parts) \o concat(Tail(parts))

AllDigits(s) == s # <<>> /\ \A i \in 1..Len(s) : IsDigit(s[i])

RECURSIVE digits_val(_)
digits_val(s) ==
    IF s = <<>> THEN 0
    ELSE digits_val(SubSeq(s, 1, Len(s) - 1)) * 10 + DigitVal(s[Len(s)])

unsigned(s) == IF s # <<>> /\ Head(s) \in {"+", "-"} THEN Tail(s) ELSE s

sign_of(s) == IF s # <<>> /\ Head(s) = "-" THEN -1 ELSE 1

\* int(s): surrounding whitespace, an optional sign, decimal digits
int_ok(s) == AllDigits(unsigned(strip(s, Whitespace)))

int_val(s) ==
    LET t == strip(s, Whitespace)
    IN  sign_of(t) * digits_val(unsigned(t))

RECURSIVE pow10(_)
pow10(k) == IF k = 0 THEN 1 ELSE 10 * pow10(k - 1)

\* float(s) for the literal forms  [sign] digits [. digits]  and  [sign] . digits
\* (exponent forms, inf and nan are outside the alphabet of the inputs used).
float_ok(s) ==
    LET u == unsigned(strip(s, Whitespace))
        p == split(u, ".")
    IN  \/ AllDigits(u)
        \/ /\ Len(p) = 2
           /\ p[1] \o p[2] # <<>>
           /\ \A i \in 1..Len(p[1]) : IsDigit(p[1][i])
           /\ \A i \in 1..Len(p[2]) : IsDigit(p[2][i])

\* A float is kept exactly as m / 10^s with s minimal (s = 0: a whole number).
RECURSIVE normal(_)
normal(f) ==
    IF f.s > 0 /\ f.m % 10 = 0
    THEN normal([m |-> f.m \div 10, s |-> f.s - 1])
    ELSE f

float_val(s) ==
    LET t == strip(s, Whitespace)
        p == split(unsigned(t), ".")
        frac == IF Len(p) = 2 THEN p[2] ELSE <<>>
    IN  normal([m |-> sign_of(t) * digits_val(p[1] \o frac), s |-> Len(frac)])

RECURSIVE nat_str(_)
nat_str(n) ==
    IF n < 10 THEN <<Digits[n + 1]>>
    ELSE nat_str(n \div 10) \o <<Digits[(n % 10) + 1]>>

\* str(n) / '{0}'.format(n) of an int
int_str(n) == IF n < 0 THEN <<"-">> \o nat_str(-n) ELSE nat_str(n)

RECURSIVE frac_str(_, _)
frac_str(n, width) ==
    IF width = 0 THEN <<>>
    ELSE frac_str(n \div 10, width - 1) \o <<Digits[(n % 10) + 1]>>

\* '{0}'.format(t) of a temperature: an int prints without a point, a float
\* with its (already minimal) fraction digits
num_str(f) ==
    IF f.s = 0 THEN int_str(f.m)
    ELSE LET a == IF f.m < 0 THEN -f.m ELSE f.m
         IN  (IF f.m < 0 THEN <<"-">> ELSE <<>>)
             \o nat_str(a \div pow10(f.s)) \o <<".">> \o frac_str(a % pow10(f.s), f.s)


(***************************************************************************)
(* PCRCompiler: the program model and its wire encoding.                   *)
(***************************************************************************)
\* PCRStep(seconds, temperature, title)
PCRStep(seconds, temperature, title) ==
    [seconds |-> seconds, temperature |-> temperature, title |-> title]

NoStep == PCRStep(0, [m |-> 0, s |-> 0], <<>>)

\* The first positional argument of PCRCycle is stored as reps whatever it
\* is: an int (IntReps) or, at the solitary-line call site, a PCRStep.
IntReps(n) == [tag |-> "int", n |-> n, step |-> NoStep]

StepReps(st) == [tag |-> "step", n |-> 0, step |-> st]

\* PCRCycle(reps, *steps)
PCRCycle(reps, steps) == [reps |-> reps, steps |-> steps]

\* PCRStep.__str__
PCRStep_str(st) ==
    <<"[">> \o int_str(st.seconds) \o <<"|">> \o num_str(st.temperature)
            \o <<"|">> \o st.title \o <<"]">>

RECURSIVE steps_str(_)
steps_str(steps) ==
    IF steps = <<>> THEN <<>>
    ELSE PCRStep_str(Head(steps)) \o steps_str(Tail(steps))

reps_str(r) == IF r.tag = "int" THEN int_str(r.n) ELSE PCRStep_str(r.step)

\* PCRCycle.__str__
PCRCycle_str(c) == <<"(">> \o reps_str(c.reps) \o steps_str(c.steps) \o <<")">>

RECURSIVE cycles_str(_)
cycles_str(cs) ==
    IF cs = <<>> THEN <<>>
    ELSE PCRCycle_str(Head(cs)) \o cycles_str(Tail(cs))

\* OpenPCRProgram.__str__
OpenPCRProgram_str(title, lid, cs) ==
    <<"s","=","A","C","G","T","C","&","l","=">> \o int_str(lid)
        \o <<"&","c","=","s","t","a","r","t","&","n","=">> \o title
        \o <<"&","p","=">> \o cycles_str(cs)

(***************************************************************************)
(* PCRCompiler: line-level parsing.                                        *)
(***************************************************************************)
\* An exception: its class, which raise statement, the line number its
\* message carries (0: none) and whether the message quotes the line text.
Raise(exc, msg, lineno, withtext) ==
    [exc |-> exc, msg |-> msg, lineno |-> lineno, withtext |-> withtext]

NoError == Raise("none", "", 0, FALSE)

\* count_indent: the spaces before the first non-space character; an empty
\* line has no such character (IndexError).
count_indent(some_str) ==
    LET t == lstrip(some_str, {" "})
    IN  IF t = <<>> THEN [ok |-> FALSE, n |-> 0]
        ELSE [ok |-> TRUE, n |-> count(some_str, " ", find(some_str, t[1]) - 1)]

\* _reps_re.match(line):  ^x[0-9]+:?$
reps_match(line) ==
    /\ Len(line) >= 2
    /\ line[1] = "x"
    /\ LET e == IF line[Len(line)] = ":" THEN Len(line) - 1 ELSE Len(line)
       IN  AllDigits(SubSeq(line, 2, e))

\* int(line.strip("x:"))
reps_value(line) == int_val(strip(line, {"x", ":"}))

\* temperature < 0 or temperature > 99
temperature_out_of_range(t) == t.m < 0 \/ t.m > 99 * pow10(t.s)

StepOk(st) == [ok |-> TRUE, step |-> st, err |-> NoError]

StepFail(e) == [ok |-> FALSE, step |-> NoStep, err |-> e]

\* parse_step_line
parse_step_line(rawline) ==
    LET line == strip(rawline, Whitespace)
        parts == split(line, "@")
        seconds0 == strip(parts[1], Whitespace)
        rest == strip(parts[2], Whitespace)
        seconds == strip(lower(seconds0), {"s"})
        tt == split_ws1(rest)
        temperature == strip(lower(strip(tt[1], Whitespace)), {"c"})
        title == strip(tt[2], Whitespace)
    IN  IF Len(parts) # 2
            THEN StepFail(Raise("ValueError", "unpack @", 0, FALSE))
        ELSE IF rest = <<>>
            THEN StepFail(Raise("Exception", "time and temperature", 0, TRUE))
        ELSE IF Len(tt) # 2
            THEN StepFail(Raise("ValueError", "unpack temperature, title", 0, FALSE))
        ELSE IF ~int_ok(seconds)
            THEN StepFail(Raise("Exception", "time", 0, TRUE))
        ELSE IF ~float_ok(temperature)
            THEN StepFail(Raise("Exception", "temperature", 0, TRUE))
        ELSE IF temperature_out_of_range(float_val(temperature))
            THEN StepFail(Raise("Exception", "temperature", 0, TRUE))
        ELSE StepOk(PCRStep(int_val(seconds), float_val(temperature), title))

(***************************************************************************)
(* PCRCompiler: header parsing.                                            *)
(***************************************************************************)
\* value.replace("&","+").replace("=",":")
sanitize(value) == replace(replace(value, "&", "+"), "=", ":")

\* One header line: tag, value = [x.strip() for x in line.split(":",1)]
header_ok(line) == Len(split1(line, ":")) = 2

header_tag(line) == lower(strip(split1(line, ":")[1], Whitespace))

header_value(line) == sanitize(strip(split1(line, ":")[2], Whitespace))

\* headers.get(key, default) after the loop: the last line with that tag wins
RECURSIVE headers_get(_, _, _)
headers_get(lines, key, default) ==
    IF lines = <<>> THEN default
    ELSE IF header_tag(lines[Len(lines)]) = key
         THEN header_value(lines[Len(lines)])
         ELSE headers_get(SubSeq(lines, 1, Len(lines) - 1), key, default)

\* the lid read from the first header line, whatever its tag
lid_text_first(lines) == rstrip(lower(header_value(lines[1])), {"c"})

\* headers.get('lid','').lower().rstrip("c")
lid_text(lines) == rstrip(lower(headers_get(lines, <<"l","i","d">>, <<>>)), {"c"})

\* abs(int(...))
lid_value(lines) ==
    LET v == int_val(lid_text(lines)) IN IF v < 0 THEN -v ELSE v

lid_valid(lines) ==
    /\ int_ok(lid_text(lines))
    /\ 0 <= lid_value(lines) /\ lid_value(lines) <= 99

(***************************************************************************)
(* openpcrlib: reading STATUS.TXT.                                         *)
(*                                                                         *)
(* A file is absent or holds bytes; "NUL" stands for the byte 0.  The      *)
(* payload ncc returns is taken as decoded text.                           *)
(***************************************************************************)
NulByte == "NUL"

StatusFile(exists, data) == [exists |-> exists, data |-> data]

\* ncc returning every byte of the file
ncc_untrimmed(f) ==
    IF ~f.exists \/ f.data = <<>>
    THEN [exc |-> "IOError", text |-> <<>>]
    ELSE [exc |-> "none", text |-> f.data]

\* OpenPCR.ncc: the bytes before the first NUL; a file that cannot be opened
\* or mapped (an empty file cannot) raises IOError
ncc(f) ==
    IF ~f.exists \/ f.data = <<>>
    THEN [exc |-> "IOError", text |-> <<>>]
    ELSE [exc |-> "none", text |-> split1(f.data, NulByte)[1]]

\* dict([x.split("=") for x in statustxt.split("&")]) needs pairs
pairs_ok(items) == \A i \in 1..Len(items) : Len(split(items[i], "=")) = 2

\* status.get(key, default): the last pair with that key wins
RECURSIVE status_get(_, _, _)
status_get(items, key, default) ==
    IF items = <<>> THEN default
    ELSE IF split(items[Len(items)], "=")[1] = key
         THEN split(items[Len(items)], "=")[2]
         ELSE status_get(SubSeq(items, 1, Len(items) - 1), key, default)

Unknown == <<"U","n","k","n","o","w","n">>

\* the three numbers padded to two digits, as a clock shows them
timeleft_padded(hoursleft, extramins, extrasecs) ==
    LET two(n) == IF n < 10 THEN <<"0">> \o int_str(n) ELSE int_str(n)
    IN  two(hoursleft) \o <<":">> \o two(extramins) \o <<":">> \o two(extrasecs)

\* '{0}:{1}:{2}'.format(hoursleft, extramins, extrasecs)
timeleft_str(hoursleft, extramins, extrasecs) ==
    int_str(hoursleft) \o <<":">> \o int_str(extramins) \o <<":">> \o int_str(extrasecs)

\* the dictionary readstatus returns (currenttime, the wall clock, left out)
statusd(items) ==
    LET secsleft == int_val(status_get(items, <<"r">>, <<"0">>))
        minsleft == secsleft \div 60
        hoursleft == minsleft \div 60
        extramins == minsleft - (hoursleft * 60)
        extrasecs == secsleft - (minsleft * 60)
    IN  [state |-> status_get(items, <<"s">>, Unknown),
         job |-> status_get(items, <<"t">>, Unknown),
         blocktemp |-> float_val(status_get(items, <<"b">>, <<"0">>)),
         lidtemp |-> float_val(status_get(items, <<"l">>, <<"0">>)),
         elapsedsecs |-> int_val(status_get(items, <<"e">>, <<"0">>)),
         secsleft |-> secsleft,
         currentstep |-> status_get(items, <<"p">>, Unknown),
         cycle |-> int_val(status_get(items, <<"c">>, <<"0">>)),
         program |-> status_get(items, <<"n">>, Unknown),
         nonce |-> int_val(status_get(items, <<"d">>, <<"-","1">>)),
         minsleft |-> minsleft,
         hoursleft |-> hoursleft,
         timeleft |-> timeleft_str(hoursleft, extramins, extrasecs)]

\* float(...) and int(...) of the numeric fields all succeed
numbers_ok(items) ==
    /\ float_ok(status_get(items, <<"b">>, <<"0">>))
    /\ float_ok(status_get(items, <<"l">>, <<"0">>))
    /\ int_ok(status_get(items, <<"e">>, <<"0">>))
    /\ int_ok(status_get(items, <<"r">>, <<"0">>))
    /\ int_ok(status_get(items, <<"c">>, <<"0">>))
    /\ int_ok(status_get(items, <<"d">>, <<"-","1">>))

NoStatus == statusd(<<>>)

\* the class of the exception the missing-nonce check raises
missing_nonce_exc == "IOError"

\* readstatus without the test of the nonce
readstatus_unchecked(f) ==
    LET raw == ncc(f)
        items == split(raw.text, "&")
    IN  IF raw.exc # "none" THEN [exc |-> raw.exc, d |-> NoStatus]
        ELSE IF ~pairs_ok(items) \/ ~numbers_ok(items)
            THEN [exc |-> "ValueError", d |-> NoStatus]
        ELSE [exc |-> "none", d |-> statusd(items)]

\* OpenPCR.readstatus: the dictionary, or the exception it raises
readstatus(f) ==
    LET raw == ncc(f)
        items == split(raw.text, "&")
    IN  IF raw.exc # "none" THEN [exc |-> raw.exc, d |-> NoStatus]
        ELSE IF ~pairs_ok(items) \/ ~numbers_ok(items)
            THEN [exc |-> "ValueError", d |-> NoStatus]
        ELSE IF statusd(items).nonce = -1
            THEN [exc |-> missing_nonce_exc, d |-> NoStatus]
        ELSE [exc |-> "none", d |-> statusd(items)]

(***************************************************************************)
(* openpcrlib: sendprogram's nonce and program assembly.                   *)
(***************************************************************************)
\* NewNonce = CurrentNonce + 1 if CurrentNonce < 100 else 1
new_nonce(CurrentNonce) == IF CurrentNonce < 100 THEN CurrentNonce + 1 ELSE 1

\* NonceCMD = 'd={}'.format(str(NewNonce))
NonceCMD(NewNonce) == <<"d","=">> \o int_str(NewNonce)

\* list.index(item) (1-based): the first element equal to item
list_index(list, item) ==
    CHOOSE i \in 1..Len(list) : list[i] = item /\ \A j \in 1..(i - 1) : list[j] # item

\* del(list[i])
list_del(list, i) == SubSeq(list, 1, i - 1) \o SubSeq(list, i + 1, Len(list))

\* list.insert(1, x): after the first element, or at the end of a shorter list
list_insert1(list, x) ==
    IF list = <<>> THEN <<x>>
    ELSE <<Head(list)>> \o <<x>> \o Tail(list)

\* for item in dissectedprogram: ... del(dissectedprogram[noncelistindex])
\* The iterator is at position i of the list that the loop body shortens;
\* item[0] of an empty item raises IndexError.
RECURSIVE remove_nonces(_, _)
remove_nonces(list, i) ==
    IF i > Len(list) THEN [exc |-> "none", list |-> list]
    ELSE IF list[i] = <<>> THEN [exc |-> "IndexError", list |-> list]
    ELSE IF list[i][1] = "d"
        THEN remove_nonces(list_del(list, list_index(list, list[i])), i + 1)
    ELSE remove_nonces(list, i + 1)

\* lines 115-123: the string written to CONTROL.TXT, or the exception
assemble(program, NewNonce) ==
    LET r == remove_nonces(split(program, "&"), 1)
    IN  IF r.exc # "none" THEN [exc |-> r.exc, text |-> <<>>]
        ELSE [exc |-> "none",
              text |-> join(list_insert1(r.list, NonceCMD(NewNonce)), "&")]

\* Time in ticks of half a time unit: time.sleep(2), the bound of the
\* while condition (5) and time.sleep(0.5)
SettleTicks == 4

PollWindowTicks == 10

PollSleepTicks == 1

(***************************************************************************)
(* Inputs.  A program text is a header block, a blank line and a body      *)
(* (parse_program splits it at the first blank line); the body is read one *)
(* line per loop iteration.                                                *)
(***************************************************************************)
\* the longest body read
MaxLines == 4

HeaderBlocks ==
    { << <<"T","i","t","l","e",":"," ","T">>, <<"L","i","d",":"," ","9","5","C">> >>,
      << <<"l","i","d",":"," ","-","5","0">>,
         <<"T","I","T","L","E",":"," ","a","&","b","=","c">>,
         <<"C","u","s","t","o","m",":"," ","x">> >>,
      << <<"T","i","t","l","e",":"," ","T">>, <<"L","i","d",":"," ","1","0","0">> >>,
      << <<"L","i","d"," ","9","5">> >>,
      << <<"L","i","d",":"," ","9","5">>, <<"L","i","d",":"," ","1","0","0">> >> }

\* "x2", "x0", "x12:"
Line_x2 == <<"x","2">>

Line_x0 == <<"x","0">>

Line_x12 == <<"x","1","2",":">>

\* "x1"
Line_x1 == <<"x","1">>

\* " 3s @ 95C A", " 5 @ 8.5 B", "  7S @ 4 C"
Line_A == <<" ","3","s"," ","@"," ","9","5","C"," ","A">>

Line_B == <<" ","5"," ","@"," ","8",".","5"," ","B">>

Line_C == <<" "," ","7","S"," ","@"," ","4"," ","C">>

\* "3s @ 95 A", unindented
Line_Solitary == <<"3","s"," ","@"," ","9","5"," ","A">>

\* " 3s @ 95", no label
Line_NoLabel == <<" ","3","s"," ","@"," ","9","5">>

\* " -5s @ 50 D"
Line_Negative == <<" ","-","5","s"," ","@"," ","5","0"," ","D">>

\* " 9s @ 100 E", " 9 @ -1 E"
Line_100 == <<" ","9","s"," ","@"," ","1","0","0"," ","E">>

Line_Minus1 == <<" ","9"," ","@"," ","-","1"," ","E">>

Line_Blank == <<>>

\* " 4s @ 60 a&b=c", a label with the reserved characters
Line_Reserved == <<" ","4","s"," ","@"," ","6","0"," ","a","&","b","=","c">>

BodyLines ==
    { Line_x2, Line_x0, Line_x12, Line_x1, Line_A, Line_B, Line_C, Line_Solitary,
      Line_NoLabel, Line_Negative, Line_100, Line_Minus1, Line_Blank,
      Line_Reserved }

\* the most fields in a program string handed to sendprogram
MaxFields == 3

\* the longest a status read takes, in ticks
MaxReadTicks == 1

Fields == { <<"s","=","A","C","G","T","C">>, <<"d","=","7">>, <<>> }

RECURSIVE FieldLists(_)
FieldLists(n) ==
    IF n = 0 THEN {<<>>}
    ELSE {Append(l, f) : l \in FieldLists(n - 1), f \in Fields}

\* "Programs cannot be longer than 252 characters", "... more than 16 'top
\* level' steps", "... more than 20 cycles", "... more than 30 steps"
MaxProgramChars == 252

MaxTopLevel == 16

MaxCycles == 20

MaxSteps == 30

RECURSIVE repeat_text(_, _)
repeat_text(t, n) == IF n = 0 THEN <<>> ELSE t \o repeat_text(t, n - 1)

\* s=ACGTC&c=start&n=TTT...T&p=(1[1|1|]), longer than MaxProgramChars
OverLongProgram ==
    <<"s","=","A","C","G","T","C","&","c","=","s","t","a","r","t","&","n","=">>
        \o repeat_text(<<"T">>, MaxProgramChars)
        \o <<"&","p","=","(","1","[","1","|","1","|","]",")">>

\* s=ACGTC&c=start&p=(1[1|1|])(1[1|1|])..., MaxTopLevel + 1 cycles
ManyCyclesProgram ==
    <<"s","=","A","C","G","T","C","&","c","=","s","t","a","r","t","&","p","=">>
        \o repeat_text(<<"(","1","[","1","|","1","|","]",")">>, MaxTopLevel + 1)

\* s=ACGTC&c=start&p=(1[1|1|][1|1|]...), MaxSteps + 1 steps
ManyStepsProgram ==
    <<"s","=","A","C","G","T","C","&","c","=","s","t","a","r","t","&","p","=","(","1">>
        \o repeat_text(<<"[","1","|","1","|","]">>, MaxSteps + 1) \o <<")">>

\* the strings handed to sendprogram
Programs ==
    {join(l, "&") : l \in UNION {FieldLists(n) : n \in 1..MaxFields}}
        \cup {OverLongProgram, ManyCyclesProgram, ManyStepsProgram}

\* the nonces STATUS.TXT may show
StatusNonces == {-5, 1, 5, 6, 100, 150}

StatusFiles ==
    { StatusFile(TRUE, <<"s","=","r","&","d","=">> \o int_str(n)) : n \in StatusNonces }
    \cup
    { StatusFile(FALSE, <<>>),
      StatusFile(TRUE, <<"s","=","r">>),
      StatusFile(TRUE, <<NulByte, NulByte>>),
      StatusFile(TRUE, <<"d","=","6",".","5">>),
      StatusFile(TRUE, <<"d","=","1",NulByte,NulByte>>) }

\* what a call of readstatus may return or raise
StatusReads == {readstatus(f) : f \in StatusFiles}

\* STATUS.TXT of a device shared by two callers: nonce 5, nonce 6, or a file
\* caught while the device rewrites it
SharedStatusFiles ==
    { StatusFile(TRUE, <<"s","=","r","&","d","=","5">>),
      StatusFile(TRUE, <<"s","=","r","&","d","=","6">>),
      StatusFile(TRUE, <<"d","=","6",".","5">>) }

SharedReads == {readstatus(f) : f \in SharedStatusFiles}

(***************************************************************************)
(* State.                                                                  *)
(***************************************************************************)
VARIABLES
    pc,                  \* parse_program: "start", "loop", "done", or "idle"
    prog_headers,        \* the header lines of the text being compiled
    body,                \* the body lines read so far (prog.splitlines())
    program_title,
    lid_temperature,
    cycles,
    current_line,
    current_cycle_steps,
    current_cycle_reps,
    current_indent,
    output,              \* the string parse_program returns
    error,               \* the exception parse_program ends with
    sess,                \* the sendprogram calls in progress, by caller
    CONTROL_TXT,         \* the device's CONTROL.TXT
    device_status,       \* what the device last reported of itself
    STATUS_TXT,          \* the device's STATUS.TXT as the status and log
                         \* commands find it
    call                 \* the status or log command in progress

compiler == <<pc, prog_headers, body, program_title, lid_temperature, cycles,
              current_line, current_cycle_steps, current_cycle_reps,
              current_indent, output, error>>

device == <<sess, CONTROL_TXT>>

reader == <<device_status, STATUS_TXT, call>>

vars == <<compiler, device, reader>>

(***************************************************************************)
(* parse_program.                                                          *)
(***************************************************************************)
Locals(cs, steps, reps, indent, err) ==
    [cycles |-> cs, current_cycle_steps |-> steps, current_cycle_reps |-> reps,
     current_indent |-> indent, err |-> err]

Failed(L, e) == [L EXCEPT !.err = e]

\* if indent < current_indent: the dedent branch
close_cycle(L, indent) ==
    Locals(Append(L.cycles,
                  PCRCycle(IntReps(L.current_cycle_reps), L.current_cycle_steps)),
           <<>>, 1, indent, L.err)

\* current_cycle_steps.append(parse_step_line(line)); current_indent = indent
append_step(L, line, indent) ==
    LET r == parse_step_line(line)
    IN  IF r.ok
        THEN [L EXCEPT !.current_cycle_steps = Append(@, r.step),
                       !.current_indent = indent]
        ELSE Failed(L, r.err)

\* the chain without the test  indent > current_indent > 0
indent_chain_lax(L, line, indent, lineno) ==
    IF indent < L.current_indent
        THEN close_cycle(L, indent)
    ELSE IF indent > L.current_indent /\ L.current_cycle_steps # <<>>
        THEN append_step(L, line, indent)
    ELSE IF indent > L.current_indent /\ L.current_indent = 0
        THEN append_step(L, line, indent)
    ELSE IF indent = L.current_indent /\ L.current_indent > 0
        THEN append_step(L, line, indent)
    ELSE L

\* the if / elif chain on the indentation of the line
indent_chain(L, line, indent, lineno) ==
    IF indent < L.current_indent
        THEN close_cycle(L, indent)
    ELSE IF indent > L.current_indent /\ L.current_indent > 0
        THEN Failed(L, Raise("Exception", "indentation", 0, FALSE))
    ELSE IF indent > L.current_indent /\ L.current_indent = 0
        THEN IF L.current_cycle_steps # <<>>
             THEN Failed(L, Raise("Exception", "additional steps", lineno, TRUE))
             ELSE append_step(L, line, indent)
    ELSE IF indent = L.current_indent /\ L.current_indent > 0
        THEN append_step(L, line, indent)
    ELSE L

\* cycles.append(PCRCycle(parse_step_line(line))): the step is the only
\* positional argument, so it binds to reps and steps is empty
solitary_cycle(st) == PCRCycle(StepReps(st), <<>>)

\* if indent == current_indent == 0: a repetition line or a solitary line
top_level(L, line, indent, lineno) ==
    IF ~(indent = L.current_indent /\ L.current_indent = 0) THEN L
    ELSE IF reps_match(line)
        THEN IF L.current_cycle_reps # 1
             THEN Failed(L, Raise("Exception", "repetition twice", lineno, TRUE))
             ELSE [L EXCEPT !.current_cycle_reps = reps_value(line),
                            !.current_indent = indent]
    ELSE IF L.current_cycle_reps # 1
        THEN Failed(L, Raise("Exception", "repetition not reset", lineno, TRUE))
    ELSE LET r == parse_step_line(line)
         IN  IF r.ok
             THEN [L EXCEPT !.cycles = Append(@, solitary_cycle(r.step)),
                            !.current_indent = indent]
             ELSE Failed(L, r.err)

\* one iteration of  for line in prog.splitlines()
loop_body(L, line, lineno) ==
    LET ci == count_indent(line)
        a == indent_chain(L, line, ci.n, lineno)
    IN  IF ~ci.ok THEN Failed(L, Raise("IndexError", "count_indent", 0, FALSE))
        ELSE IF a.err # NoError THEN a
        ELSE top_level(a, line, ci.n, lineno)

\* flush without the append
flush_dropped(cs, steps, reps) == cs

\* the for loop's else clause: flush the open cycle
flush(cs, steps, reps) ==
    IF steps # <<>> THEN Append(cs, PCRCycle(IntReps(reps), steps)) ELSE cs

InitCompiler ==
    /\ pc = "start"
    /\ prog_headers \in HeaderBlocks
    /\ body = <<>>
    /\ program_title = <<>>
    /\ lid_temperature = 0
    /\ cycles = <<>>
    /\ current_line = 0
    /\ current_cycle_steps = <<>>
    /\ current_cycle_reps = 1
    /\ current_indent = 0
    /\ output = <<>>
    /\ error = NoError

\* lines 117-131: the headers, the title and the lid temperature
ParseHeaders ==
    /\ pc = "start"
    /\ IF \E i \in 1..Len(prog_headers) : ~header_ok(prog_headers[i])
       THEN /\ error' = Raise("ValueError", "unpack tag, value", 0, FALSE)
            /\ pc' = "done"
            /\ UNCHANGED <<program_title, lid_temperature>>
       ELSE IF ~lid_valid(prog_headers)
       THEN /\ error' = Raise("Exception", "lid", 0, FALSE)
            /\ pc' = "done"
            /\ UNCHANGED <<program_title, lid_temperature>>
       ELSE /\ program_title' = headers_get(prog_headers, <<"t","i","t","l","e">>, <<>>)
            /\ lid_temperature' = lid_value(prog_headers)
            /\ pc' = "loop"
            /\ UNCHANGED error
    /\ UNCHANGED <<prog_headers, body, cycles, current_line, current_cycle_steps,
                   current_cycle_reps, current_indent, output, device, reader>>

\* lines 139-180: the next body line (line 115 has stripped its right end)
ReadLine ==
    /\ pc = "loop"
    /\ Len(body) < MaxLines
    /\ \E raw \in BodyLines :
        LET line == rstrip(raw, Whitespace)
            L == loop_body(Locals(cycles, current_cycle_steps, current_cycle_reps,
                                  current_indent, NoError),
                           line, current_line + 1)
        IN  /\ body' = Append(body, line)
            /\ current_line' = current_line + 1
            /\ cycles' = L.cycles
            /\ current_cycle_steps' = L.current_cycle_steps
            /\ current_cycle_reps' = L.current_cycle_reps
            /\ current_indent' = L.current_indent
            /\ error' = L.err
            /\ pc' = IF L.err # NoError THEN "done" ELSE "loop"
    /\ UNCHANGED <<prog_headers, program_title, lid_temperature, output, device, reader>>

\* lines 181-185: end of input
EndOfInput ==
    /\ pc = "loop"
    /\ body # <<>>
    /\ cycles' = flush(cycles, current_cycle_steps, current_cycle_reps)
    /\ output' = OpenPCRProgram_str(program_title, lid_temperature, cycles')
    /\ pc' = "done"
    /\ UNCHANGED <<prog_headers, body, program_title, lid_temperature, current_line,
                   current_cycle_steps, current_cycle_reps, current_indent, error,
                   device, reader>>

(***************************************************************************)
(* OpenPCR.sendprogram, one call per caller p.                             *)
(***************************************************************************)
NewSession(program) ==
    [pc |-> "start", program |-> program, initial |-> "none", concurrent |-> FALSE,
     CurrentNonce |-> 0, NewNonce |-> 0,
     assembledprogram |-> <<>>, Status |-> [set |-> FALSE, d |-> NoStatus],
     clock |-> 0, wrote |-> 0, wrote_at |-> 0, started_waiting |-> 0,
     last_poll |-> "none", last_poll_at |-> 0, last_poll_end |-> 0,
     report |-> "none", raised |-> "none"]

\* except ValueError
caught_in_poll(exc) == exc = "ValueError"

\* if Status: ... the three messages sendprogram prints
report_of(Status, NewNonce) ==
    IF Status.set
    THEN IF Status.d.nonce = NewNonce THEN "success" ELSE "mismatch"
    ELSE "unresponsive"

\* what this read of STATUS.TXT may return or raise
device_reads == IF Len(sess) > 1 THEN SharedReads ELSE StatusReads

\* another caller's sendprogram has been entered and has not ended
OtherInProgress(p) ==
    \E q \in DOMAIN sess \ {p} : sess[q].pc \notin {"start", "done"}

\* the initial read of a call that does not note the calls in progress
InitialRead_unnoted(p) ==
    /\ sess[p].pc = "start"
    /\ \E r \in device_reads :
        sess' = [sess EXCEPT ![p] =
            IF r.exc # "none"
            THEN [@ EXCEPT !.pc = "done", !.initial = r.exc, !.raised = r.exc]
            ELSE [@ EXCEPT !.pc = "assemble", !.initial = "ok",
                           !.CurrentNonce = r.d.nonce]]
    /\ UNCHANGED <<compiler, CONTROL_TXT, reader>>

\* line 109: Status = self.readstatus().  The call notes whether it was
\* entered while another call was in progress.
InitialRead(p) ==
    /\ sess[p].pc = "start"
    /\ \E r \in device_reads :
        sess' = [sess EXCEPT ![p] =
            IF r.exc # "none"
            THEN [@ EXCEPT !.pc = "done", !.initial = r.exc, !.raised = r.exc,
                           !.concurrent = OtherInProgress(p)]
            ELSE [@ EXCEPT !.pc = "assemble", !.initial = "ok",
                           !.CurrentNonce = r.d.nonce,
                           !.concurrent = OtherInProgress(p)]]
    /\ UNCHANGED <<compiler, CONTROL_TXT, reader>>

\* lines 110-127: the new nonce, the assembled program, the write to
\* CONTROL.TXT, time.sleep(2) and started_waiting = time.time()
WriteProgram(p) ==
    /\ sess[p].pc = "assemble"
    /\ LET nn == new_nonce(sess[p].CurrentNonce)
           a == assemble(sess[p].program, nn)
       IN  IF a.exc # "none"
           THEN /\ sess' = [sess EXCEPT ![p] =
                        [@ EXCEPT !.pc = "done", !.NewNonce = nn, !.raised = a.exc]]
                /\ UNCHANGED CONTROL_TXT
           ELSE /\ CONTROL_TXT' = a.text
                /\ sess' = [sess EXCEPT ![p] =
                        [@ EXCEPT !.pc = "poll", !.NewNonce = nn,
                                  !.assembledprogram = a.text,
                                  !.wrote = @ + 1,
                                  !.wrote_at = sess[p].clock,
                                  !.clock = @ + SettleTicks,
                                  !.started_waiting = sess[p].clock + SettleTicks]]
    /\ UNCHANGED <<compiler, reader>>

\* lines 129-135: one iteration of the poll loop
PollRead(p) ==
    /\ sess[p].pc = "poll"
    /\ sess[p].clock - sess[p].started_waiting < PollWindowTicks
    /\ \E r \in device_reads, dur \in 0..MaxReadTicks :
        LET polled == [sess[p] EXCEPT !.last_poll_at = sess[p].clock,
                                      !.last_poll_end = sess[p].clock + dur,
                                      !.last_poll = IF r.exc = "none" THEN "ok" ELSE r.exc]
        IN  sess' = [sess EXCEPT ![p] =
                IF r.exc = "none"
                THEN [polled EXCEPT !.Status = [set |-> TRUE, d |-> r.d],
                                    !.clock = @ + dur,
                                    !.pc = "report"]
                ELSE IF caught_in_poll(r.exc)
                THEN [polled EXCEPT !.clock = @ + dur + PollSleepTicks]
                ELSE [polled EXCEPT !.clock = @ + dur,
                                    !.raised = r.exc,
                                    !.pc = "done"]]
    /\ UNCHANGED <<compiler, CONTROL_TXT, reader>>

\* line 129: the while condition is false
PollTimeout(p) ==
    /\ sess[p].pc = "poll"
    /\ ~(sess[p].clock - sess[p].started_waiting < PollWindowTicks)
    /\ sess' = [sess EXCEPT ![p] = [@ EXCEPT !.pc = "report"]]
    /\ UNCHANGED <<compiler, CONTROL_TXT, reader>>

\* lines 136-142
Report(p) ==
    /\ sess[p].pc = "report"
    /\ sess' = [sess EXCEPT ![p] =
            [@ EXCEPT !.report = report_of(sess[p].Status, sess[p].NewNonce),
                      !.pc = "done"]]
    /\ UNCHANGED <<compiler, CONTROL_TXT, reader>>

(***************************************************************************)
(* The status and log commands.  The device reports itself in STATUS.TXT   *)
(* as key=value fields, in a file padded after the payload.                *)
(***************************************************************************)
\* the keys of the table in readstatus, in the order the device writes them
StatusKeyOrder == <<"s","t","b","l","e","r","p","c","n","d">>

StatusKeys == {StatusKeyOrder[i] : i \in 1..Len(StatusKeyOrder)}

\* the most keys a report leaves out
MaxMissing == 2

\* the most times the device rewrites STATUS.TXT
MaxRewrites == 1

DeviceStates ==
    { <<"r","u","n","n","i","n","g">>,
      <<"C","o","m","p","l","e","t","e">>,
      <<"I","n","a","c","t","i","v","e">> }

\* the seconds left a new report may show
SecsLeft == {0, 59, 60, 3599, 3600, 86399, 360000}

\* the value the device writes for key k
device_value(ds, k) ==
    CASE k = "s" -> ds.state
      [] k = "t" -> <<"h","e","a","t","i","n","g">>
      [] k = "b" -> <<"9","5",".","5">>
      [] k = "l" -> <<"1","0","0">>
      [] k = "e" -> <<"1","2">>
      [] k = "r" -> int_str(ds.secsleft)
      [] k = "p" -> <<"D","e","n","a","t","u","r","e">>
      [] k = "c" -> <<"3">>
      [] k = "n" -> <<"P","r","o","g">>
      [] k = "d" -> <<"7">>

\* a key outside the table of readstatus: z=9
UnknownField == <<"z","=","9">>

\* what follows the payload in the file: a NUL, then bytes of an older report
StalePadding == <<NulByte, "&","n","=","o","l","d", NulByte>>

device_fields(ds) ==
    LET present == SelectSeq(StatusKeyOrder, LAMBDA k : k \in ds.keys)
        fields == [i \in 1..Len(present) |->
                      <<present[i], "=">> \o device_value(ds, present[i])]
    IN  IF ds.extra THEN <<UnknownField>> \o fields ELSE fields

\* the bytes of STATUS.TXT for a report
status_bytes(ds) ==
    join(device_fields(ds), "&") \o (IF ds.padded THEN StalePadding ELSE <<>>)

DeviceStatus(keys, state, secsleft, extra, padded, rewrites) ==
    [keys |-> keys, state |-> state, secsleft |-> secsleft, extra |-> extra,
     padded |-> padded, rewrites |-> rewrites]

DeviceStatuses ==
    { DeviceStatus(K, st, 3725, x, p, 0) :
        K \in {K \in SUBSET StatusKeys : Cardinality(StatusKeys \ K) <= MaxMissing},
        st \in DeviceStates, x \in BOOLEAN, p \in BOOLEAN }

\* the attributes an OpenPCR object has: those __init__ assigns and the
\* methods of the class
OpenPCRAttributes ==
    { "platform", "deviceath", "devicepath", "DefaultPlatformPath", "sendprogram",
      "_sendprogram", "test", "stop", "ncc", "readstatus", "csvstatus",
      "printstatus" }

\* device.<name>
attribute(name) ==
    IF name \in OpenPCRAttributes
    THEN [exc |-> "none", value |-> TRUE]
    ELSE [exc |-> "AttributeError", value |-> FALSE]

NoAttribute == [exc |-> "none", value |-> FALSE]

NoCall ==
    [cmd |-> "none", pc |-> "idle", exc |-> "none", returned |-> FALSE,
     statusd |-> NoStatus, active |-> NoAttribute, logged |-> 0]

\* the device writes a new report; no command is running
DeviceReports ==
    /\ call.pc = "idle"
    /\ device_status.rewrites < MaxRewrites
    /\ \E st \in DeviceStates, r \in SecsLeft :
        device_status' = DeviceStatus(StatusKeys, st, r, FALSE, TRUE,
                                      device_status.rewrites + 1)
    /\ STATUS_TXT' = StatusFile(TRUE, status_bytes(device_status'))
    /\ UNCHANGED <<compiler, device, call>>

\* the status command: printstatus calls readstatus
PrintStatus ==
    /\ call.pc = "idle"
    /\ LET S == readstatus(STATUS_TXT)
       IN  call' = [NoCall EXCEPT !.cmd = "status", !.pc = "done", !.exc = S.exc,
                                  !.returned = (S.exc = "none"), !.statusd = S.d]
    /\ UNCHANGED <<compiler, device, device_status, STATUS_TXT>>

\* the log command: the first iteration of its loop.  csvstatus calls
\* readstatus; then the loop reads device.active
LogIteration ==
    /\ call.pc = "idle"
    /\ LET S == readstatus(STATUS_TXT)
           entry == [NoCall EXCEPT !.cmd = "log", !.pc = "done", !.exc = S.exc,
                                   !.returned = (S.exc = "none"), !.statusd = S.d]
           active == attribute("active")
       IN  call' =
            IF S.exc # "none" THEN entry
            ELSE IF active.exc # "none"
                THEN [entry EXCEPT !.exc = active.exc, !.active = active]
            ELSE [entry EXCEPT !.active = active,
                               !.logged = IF active.value THEN 1 ELSE 0]
    /\ UNCHANGED <<compiler, device, device_status, STATUS_TXT>>

\* the command ends
Return ==
    /\ call.pc = "done"
    /\ call' = NoCall
    /\ UNCHANGED <<compiler, device, device_status, STATUS_TXT>>

\* no status or log command
ReaderIdle ==
    /\ device_status = DeviceStatus({}, <<>>, 0, FALSE, FALSE, 0)
    /\ STATUS_TXT = StatusFile(FALSE, <<>>)
    /\ call = NoCall

\* no sendprogram call
DeviceIdle ==
    /\ sess = <<>>
    /\ CONTROL_TXT = <<>>

\* no parse_program call
CompilerIdle ==
    /\ pc = "idle"
    /\ prog_headers = <<>>
    /\ body = <<>>
    /\ program_title = <<>>
    /\ lid_temperature = 0
    /\ cycles = <<>>
    /\ current_line = 0
    /\ current_cycle_steps = <<>>
    /\ current_cycle_reps = 1
    /\ current_indent = 0
    /\ output = <<>>
    /\ error = NoError

(***************************************************************************)
(* Spec: one call of parse_program.                                        *)
(***************************************************************************)
Init == InitCompiler /\ DeviceIdle /\ ReaderIdle

Next == ParseHeaders \/ ReadLine \/ EndOfInput

Spec == Init /\ [][Next]_vars

\* parse_program returned a string
Compiled == pc = "done" /\ error = NoError

(***************************************************************************)
(* SpecSend: one call of sendprogram against a device whose STATUS.TXT     *)
(* may hold anything at each read.                                         *)
(***************************************************************************)
InitSend ==
    /\ CompilerIdle
    /\ \E program \in Programs : sess = <<NewSession(program)>>
    /\ CONTROL_TXT = <<>>
    /\ ReaderIdle

NextSend ==
    \/ InitialRead(1)
    \/ WriteProgram(1)
    \/ PollRead(1)
    \/ PollTimeout(1)
    \/ Report(1)

SpecSend == InitSend /\ [][NextSend]_vars

(***************************************************************************)
(* SpecTwo: two callers send different programs to the same device; their  *)
(* calls may run one after the other or interleave step by step.           *)
(***************************************************************************)
Callers == {1, 2}

\* s=ACGTC and s=ACGTC&s=ACGTC
SendPair ==
    { <<"s","=","A","C","G","T","C">>,
      <<"s","=","A","C","G","T","C","&","s","=","A","C","G","T","C">> }

InitTwo ==
    /\ CompilerIdle
    /\ \E a \in SendPair, b \in SendPair :
        a # b /\ sess = <<NewSession(a), NewSession(b)>>
    /\ CONTROL_TXT = <<>>
    /\ ReaderIdle

NextTwo ==
    \E p \in Callers :
        \/ InitialRead(p)
        \/ WriteProgram(p)
        \/ PollRead(p)
        \/ PollTimeout(p)
        \/ Report(p)

SpecTwo == InitTwo /\ [][NextTwo]_vars

(***************************************************************************)
(* SpecStatus: the status and log commands against a reporting device.     *)
(***************************************************************************)
InitStatus ==
    /\ CompilerIdle
    /\ DeviceIdle
    /\ device_status \in DeviceStatuses
    /\ STATUS_TXT = StatusFile(TRUE, status_bytes(device_status))
    /\ call = NoCall

NextStatus == DeviceReports \/ PrintStatus \/ LogIteration \/ Return

SpecStatus == InitStatus /\ [][NextStatus]_vars

(***************************************************************************)
(* What the document says, read off the text of each input line.           *)
(***************************************************************************)
MarkerLines == {Line_x2, Line_x0, Line_x12, Line_x1}

\* the N of a marker line xN, as written
marker_text(l) ==
    CASE l = Line_x2 -> <<"2">>
      [] l = Line_x0 -> <<"0">>
      [] l = Line_x12 -> <<"1","2">>
      [] l = Line_x1 -> <<"1">>

\* indented step lines that give seconds, a temperature in range and a label
LabelledStepLines == {Line_A, Line_B, Line_C, Line_Negative}

\* the [seconds|temperature|label] such a line stands for
step_text(l) ==
    CASE l = Line_A -> <<"[","3","|","9","5","|","A","]">>
      [] l = Line_B -> <<"[","5","|","8",".","5","|","B","]">>
      [] l = Line_C -> <<"[","7","|","4","|","C","]">>
      [] l = Line_Negative -> <<"[","-","5","|","5","0","|","D","]">>

leading_spaces(l) == Len(l) - Len(lstrip(l, {" "}))

\* marker lines, each immediately followed by one or more equally-indented
\* step lines
BlockBody(b) ==
    /\ b # <<>>
    /\ b[1] \in MarkerLines
    /\ \A i \in 1..Len(b) :
        \/ /\ b[i] \in MarkerLines
           /\ i < Len(b)
           /\ b[i + 1] \in LabelledStepLines
        \/ /\ b[i] \in LabelledStepLines
           /\ i > 1
           /\ \/ b[i - 1] \in MarkerLines
              \/ /\ b[i - 1] \in LabelledStepLines
                 /\ leading_spaces(b[i - 1]) = leading_spaces(b[i])

\* one group per marker, in document order
RECURSIVE block_groups(_)
block_groups(b) ==
    IF b = <<>> THEN <<>>
    ELSE block_groups(SubSeq(b, 1, Len(b) - 1))
         \o (IF b[Len(b)] \in MarkerLines
             THEN (IF Len(b) > 1 THEN <<")">> ELSE <<>>)
                  \o <<"(">> \o marker_text(b[Len(b)])
             ELSE step_text(b[Len(b)]))

\* s=ACGTC&l=<lid>&c=start&n=<title>&p=
program_prefix ==
    <<"s","=","A","C","G","T","C","&","l","=">> \o int_str(lid_temperature)
        \o <<"&","c","=","s","t","a","r","t","&","n","=">> \o program_title
        \o <<"&","p","=">>

(***************************************************************************)
(* Claims about parse_program (specification Spec).                        *)
(***************************************************************************)
\* C1: for a body of marker lines xN, each immediately followed by one or
\* more equally-indented step lines (lines giving seconds, temperature and a
\* label), parse_program returns the fixed prefix followed by one group
\* (N[seconds|temperature|label]...) per marker, groups and steps in document
\* order, the block still open at end of input being the last group.
C1_BlockProgram ==
    (Compiled /\ BlockBody(body))
        => output = program_prefix \o block_groups(body) \o <<")">>

\* C1 witness: a body of two blocks has been compiled.
C1_TwoBlocksCompiled ==
    /\ Compiled
    /\ BlockBody(body)
    /\ Len(body) = 4
    /\ body[3] \in MarkerLines
    /\ Len(cycles) = 2

\* C2: a top-level line that is not a repetition marker is compiled as a cycle
\* with repeatCount 1 and that one step: each solitary line "3s @ 95 A"
\* contributes the group (1[3|95|A]) to the encoded program.
C2_SolitaryGroup ==
    (Compiled /\ \A i \in 1..Len(body) : body[i] = Line_Solitary)
        => output = program_prefix
                    \o repeat_text(<<"(","1","[","3","|","9","5","|","A","]",")">>,
                                   Len(body))

\* the steps a cycle holds in its encoded form
step_count(c) == Len(c.steps) + (IF c.reps.tag = "step" THEN 1 ELSE 0)

\* C7: every program compiled without error has at least one cycle, and every
\* cycle in it has at least one step.
C7_NonEmpty ==
    Compiled =>
        /\ Len(cycles) >= 1
        /\ \A i \in 1..Len(cycles) : step_count(cycles[i]) >= 1

\* every step of a cycle, the one bound to reps included
steps_of(c) == IF c.reps.tag = "step" THEN <<c.reps.step>> \o c.steps ELSE c.steps

\* C8: in every program compiled without error the lid temperature and every
\* step temperature lie in [0,99], and a step line whose temperature is 100
\* or -1 makes compilation fail.
C8_TemperatureRange ==
    Compiled =>
        /\ 0 <= lid_temperature /\ lid_temperature <= 99
        /\ \A i \in 1..Len(cycles) : \A j \in 1..Len(steps_of(cycles[i])) :
              LET t == steps_of(cycles[i])[j].temperature
              IN  0 <= t.m /\ t.m <= 99 * pow10(t.s)
        /\ \A i \in 1..Len(body) : body[i] \notin {Line_100, Line_Minus1}

\* C9: in every program compiled without error every repeat count is at
\* least 1 and every seconds value at least 0: neither a marker x0 nor a step
\* line with negative seconds reaches the encoded program.
C9_CountsInRange ==
    Compiled =>
        \A i \in 1..Len(cycles) :
            /\ cycles[i].reps.tag = "int" => cycles[i].reps.n >= 1
            /\ \A j \in 1..Len(steps_of(cycles[i])) :
                  steps_of(cycles[i])[j].seconds >= 0

\* C10: the label is optional: the step line " 3s @ 95", read first or right
\* after a marker, compiles to a step with an empty label and the seconds and
\* temperature it has with a label.
C10_LabelOptional ==
    (/\ pc # "start"
     /\ body # <<>>
     /\ body[Len(body)] = Line_NoLabel
     /\ (Len(body) = 1 \/ (Len(body) = 2 /\ body[1] \in MarkerLines)))
        => /\ error = NoError
           /\ current_cycle_steps = <<PCRStep(3, [m |-> 95, s |-> 0], <<>>)>>

(***************************************************************************)
(* Claims about sendprogram (specification SpecSend).                      *)
(***************************************************************************)
\* the one sendprogram call has returned or raised after writing CONTROL.TXT
SendEnded == sess # <<>> /\ sess[1].pc = "done" /\ sess[1].wrote = 1

\* a status read of the poll phase succeeded
PollSucceeded == sess[1].last_poll = "ok"

\* C3: sendprogram reports success exactly when a poll read succeeded and
\* the nonce of that status equals the new nonce it wrote, the nonce mismatch
\* exactly when a poll read succeeded with a different nonce, and the
\* unresponsive outcome exactly when no poll read succeeded.
C3_ReportExactly ==
    SendEnded =>
        /\ sess[1].report = "success"
             <=> (PollSucceeded /\ sess[1].Status.d.nonce = sess[1].NewNonce)
        /\ sess[1].report = "mismatch"
             <=> (PollSucceeded /\ sess[1].Status.d.nonce # sess[1].NewNonce)
        /\ sess[1].report = "unresponsive" <=> ~PollSucceeded

\* C4: for every current nonce c that readstatus returns, the new nonce is
\* (c % 100) + 1 and lies in [1,100].
C4_NonceWraps ==
    (sess # <<>> /\ sess[1].pc \notin {"start", "assemble"} /\ sess[1].raised = "none")
        => /\ sess[1].NewNonce = (sess[1].CurrentNonce % 100) + 1
           /\ sess[1].NewNonce \in 1..100

\* a field d=<value>
IsNonceField(f) == Len(f) >= 2 /\ f[1] = "d" /\ f[2] = "="

NotNonceField(f) == ~IsNonceField(f)

\* C5: the string written to CONTROL.TXT consists of the supplied fields that
\* are not nonce fields, in their original order with the signature field
\* still first, plus exactly one nonce field whose value is the new nonce;
\* every nonce field of the supplied string is removed.
C5_WrittenFields ==
    (sess # <<>> /\ sess[1].wrote = 1)
        => LET supplied == split(sess[1].program, "&")
               written == split(CONTROL_TXT, "&")
           IN  /\ SelectSeq(written, NotNonceField) = SelectSeq(supplied, NotNonceField)
               /\ SelectSeq(written, IsNonceField) = <<NonceCMD(sess[1].NewNonce)>>
               /\ supplied[1] = <<"s","=","A","C","G","T","C">>
                     => written[1] = supplied[1]

\* C6: a poll read that fails (unparseable payload or payload without a
\* nonce) while the poll window has not elapsed is followed by another read,
\* and a call that ends without a successful poll read ends with the
\* unresponsive outcome.
C6_FailedReadRetried ==
    sess # <<>> =>
        /\ (/\ sess[1].last_poll \notin {"none", "ok"}
            /\ sess[1].clock - sess[1].started_waiting < PollWindowTicks)
              => sess[1].pc = "poll"
        /\ (SendEnded /\ ~PollSucceeded) => sess[1].report = "unresponsive"

\* C11: when a repetition marker xN has been read and no indented step line
\* has followed it, a second marker or a solitary (unindented) step line on
\* the next line makes parse_program fail with an error that reports that
\* line's number, whatever N is.
C11_PendingMarkerRejected ==
    (/\ pc \in {"loop", "done"}
     /\ Len(body) >= 2
     /\ body[Len(body) - 1] \in MarkerLines
     /\ body[Len(body)] \in MarkerLines \cup {Line_Solitary})
        => /\ error # NoError
           /\ error.lineno = Len(body)

\* the last body line read is indented deeper than the line before it, which
\* is itself indented
DeeperThanIndented ==
    /\ pc \in {"loop", "done"}
    /\ Len(body) >= 2
    /\ leading_spaces(body[Len(body)]) > leading_spaces(body[Len(body) - 1])
    /\ leading_spaces(body[Len(body) - 1]) > 0

\* C12: a body line indented deeper than the current non-zero indentation
\* makes parse_program fail and produce no encoded program: an indent
\* increase is accepted only from level 0.
C12_OneIndentDepth ==
    DeeperThanIndented => (pc = "done" /\ error # NoError /\ output = <<>>)

\* C12 witness: a line at depth 2 has been read after a step line at depth 1
\* and was refused for its indentation.
C12_DeeperLineRefused ==
    /\ DeeperThanIndented
    /\ body[Len(body)] = Line_C
    /\ body[Len(body) - 1] = Line_A
    /\ error.msg = "indentation"

\* C13: no '&' or '=' of the Title value or of a step label appears in the
\* encoded program: its only '&' and '=' are the delimiters of the fixed
\* fields s, l, c, n and p (four '&', five '=').
C13_OnlyFieldDelimiters ==
    Compiled =>
        /\ count(output, "&", Len(output)) = 4
        /\ count(output, "=", Len(output)) = 5

\* C14: a program whose encoded form is longer than 252 characters, or has
\* more than 16 top-level cycle entries, more than 20 cycles or more than 30
\* steps, is rejected before transmission: CONTROL.TXT is never written with
\* such a program.
C14_LimitsEnforced ==
    (sess # <<>> /\ sess[1].wrote = 1)
        => LET program == sess[1].program
               groups == Cardinality({i \in 1..Len(program) : program[i] = "("})
               steps == Cardinality({i \in 1..Len(program) : program[i] = "["})
           IN  /\ Len(program) <= MaxProgramChars
               /\ groups <= MaxTopLevel
               /\ groups <= MaxCycles
               /\ steps <= MaxSteps

\* C15: every failure of parse_program caused by malformed body text yields
\* an error that carries the number of the offending body line and that
\* line's text.
C15_ErrorsLocated ==
    (pc = "done" /\ error # NoError /\ body # <<>>)
        => (error.lineno = Len(body) /\ error.withtext)

(***************************************************************************)
(* The round trip: what the source text specifies, and the inverse of the  *)
(* encoding (repeatCount[seconds|temperature|label]...).                   *)
(***************************************************************************)
\* the N of a marker line xN, as a number
marker_value(l) ==
    CASE l = Line_x2 -> 2
      [] l = Line_x0 -> 0
      [] l = Line_x12 -> 12
      [] l = Line_x1 -> 1

\* the seconds and the temperature a step line specifies
step_value(l) ==
    CASE l \in {Line_A, Line_Solitary} ->
            [seconds |-> 3, temperature |-> [m |-> 95, s |-> 0]]
      [] l = Line_B -> [seconds |-> 5, temperature |-> [m |-> 85, s |-> 1]]
      [] l = Line_C -> [seconds |-> 7, temperature |-> [m |-> 4, s |-> 0]]
      [] l = Line_Negative -> [seconds |-> -5, temperature |-> [m |-> 50, s |-> 0]]

\* marker blocks and solitary step lines
SourceBody(b) ==
    /\ b # <<>>
    /\ \A i \in 1..Len(b) :
        \/ /\ b[i] \in MarkerLines
           /\ i < Len(b)
           /\ b[i + 1] \in LabelledStepLines
        \/ /\ b[i] = Line_Solitary
           /\ i > 1 => b[i - 1] \notin MarkerLines
        \/ /\ b[i] \in LabelledStepLines
           /\ i > 1
           /\ \/ b[i - 1] \in MarkerLines
              \/ /\ b[i - 1] \in LabelledStepLines
                 /\ leading_spaces(b[i - 1]) = leading_spaces(b[i])

\* the cycles such a body specifies: repeat count, then seconds and
\* temperature of each step
RECURSIVE source_cycles(_)
source_cycles(b) ==
    IF b = <<>> THEN <<>>
    ELSE LET before == source_cycles(SubSeq(b, 1, Len(b) - 1))
             l == b[Len(b)]
         IN  IF l \in MarkerLines
                 THEN Append(before, [reps |-> marker_value(l), steps |-> <<>>])
             ELSE IF l = Line_Solitary
                 THEN Append(before, [reps |-> 1, steps |-> <<step_value(l)>>])
             ELSE [before EXCEPT ![Len(before)].steps = Append(@, step_value(l))]

\* the text after  &p=
program_field(text) == SubSeq(text, Len(program_prefix) + 1, Len(text))

\* the pieces of one group after its opening parenthesis: the repeat count,
\* then one  seconds|temperature|label]  per step
group_parts(g) == split(Tail(g), "[")

step_fields(part) == split(part, "|")

group_ok(g) ==
    /\ g # <<>>
    /\ g[1] = "("
    /\ int_ok(group_parts(g)[1])
    /\ \A i \in 2..Len(group_parts(g)) :
        LET f == step_fields(group_parts(g)[i])
        IN  /\ Len(f) = 3
            /\ int_ok(f[1])
            /\ float_ok(f[2])
            /\ f[3] # <<>> /\ f[3][Len(f[3])] = "]"

\* the groups of a p= text, each without its closing parenthesis
groups_of(p) == SubSeq(split(p, ")"), 1, Len(split(p, ")")) - 1)

decode_ok(p) ==
    /\ split(p, ")")[Len(split(p, ")"))] = <<>>
    /\ \A i \in 1..Len(groups_of(p)) : group_ok(groups_of(p)[i])

decode_group(g) ==
    [reps |-> int_val(group_parts(g)[1]),
     steps |-> [i \in 1..(Len(group_parts(g)) - 1) |->
                  LET f == step_fields(group_parts(g)[i + 1])
                  IN  [seconds |-> int_val(f[1]), temperature |-> float_val(f[2])]]]

decode(p) == [i \in 1..Len(groups_of(p)) |-> decode_group(groups_of(p)[i])]

\* C16: for every program text that compiles, decoding the p= portion of the
\* encoded string with the inverse of (repeatCount[seconds|temperature|label]...)
\* recovers, cycle by cycle and step by step, the repeat counts, seconds and
\* temperatures the source text specified.
C16_RoundTrip ==
    (Compiled /\ SourceBody(body))
        => /\ decode_ok(program_field(output))
           /\ decode(program_field(output)) = source_cycles(body)

(***************************************************************************)
(* parse_program as a function of the header lines and the body lines.     *)
(***************************************************************************)
\* line 121 raises nothing
header_ok_all(lines) == \A i \in 1..Len(lines) : header_ok(lines[i])

\* lines 119-131 raise nothing
headers_accepted(lines) == header_ok_all(lines) /\ lid_valid(lines)

\* the locals when the loop over the body ends, from the locals L before
\* iteration i
RECURSIVE run_lines(_, _, _)
run_lines(L, b, i) ==
    IF i > Len(b) \/ L.err # NoError THEN L
    ELSE LET after == CHOOSE x \in {loop_body(L, b[i], i)} : TRUE
         IN  run_lines(after, b, i + 1)

NotCompiled == [ok |-> FALSE, cycles |-> <<>>]

\* lines 134-184: the cycle sequence compiled from the body
body_cycles(b) ==
    LET L == run_lines(Locals(<<>>, <<>>, 1, 0, NoError), b, 1)
    IN  IF L.err # NoError THEN NotCompiled
        ELSE [ok |-> TRUE,
              cycles |-> flush(L.cycles, L.current_cycle_steps, L.current_cycle_reps)]

\* the orders in which n header lines can be written
Orders(n) == {f \in [1..n -> 1..n] : \A i, j \in 1..n : f[i] = f[j] => i = j}

reorder(lines, f) == [i \in 1..Len(lines) |-> lines[f[i]]]

\* the header blocks in every order of their lines
HeaderOrders == UNION {{reorder(h, f) : f \in Orders(Len(h))} : h \in HeaderBlocks}

\* lines 119-131 applied to each of them
HeadersAccepted == [h \in HeaderOrders |-> headers_accepted(h)]

\* the outcomes of lines 119-131 over the orders of each header block
AcceptedInOrders ==
    [h \in HeaderBlocks |->
        {HeadersAccepted[reorder(h, f)] : f \in Orders(Len(h))}]

\* the cycle sequence compiled from a text, given the outcome of its header
\* lines and the cycle sequence of its body
compile_cycles(accepted, of_body) ==
    IF accepted THEN of_body ELSE NotCompiled

\* lines 119-131 have run on this text and raised nothing
HeadersParsed == pc = "loop" \/ (pc = "done" /\ (body # <<>> \/ error = NoError))

\* lines 119-131 have run on this text
HeadersRead == pc \in {"loop", "done"}

\* the outcome of this text so far is the outcome of the text with its header
\* lines in any other order
SameCyclesInAnyOrder ==
    /\ AcceptedInOrders[prog_headers] = {HeadersParsed}
    /\ Compiled =>
          LET of_body == body_cycles(body)
          IN  \A accepted \in AcceptedInOrders[prog_headers] :
                  compile_cycles(accepted, of_body) = [ok |-> TRUE, cycles |-> cycles]

\* no header key is given twice
DistinctTags(lines) ==
    \A i, j \in 1..Len(lines) : header_tag(lines[i]) = header_tag(lines[j]) => i = j

\* the header blocks that give no key twice
DistinctKeyBlocks == {h \in HeaderBlocks : DistinctTags(h)}

\* C17 as stated: reordering the header lines of a program text (same set of
\* keys and values) does not change the cycle/step sequence compiled from
\* the body.
C17_AnyHeaderOrder == HeadersRead => SameCyclesInAnyOrder

\* C17, amended: reordering the header lines of a program text that gives no
\* header key twice does not change the cycle/step sequence compiled from the
\* body.
C17_DistinctKeysAnyOrder ==
    (HeadersRead /\ prog_headers \in DistinctKeyBlocks) => SameCyclesInAnyOrder

\* C17 witness: a text with three distinct header keys and two cycles has
\* been compiled.
C17_ThreeHeadersCompiled ==
    /\ Compiled
    /\ Len(prog_headers) = 3
    /\ prog_headers \in DistinctKeyBlocks
    /\ Len(cycles) = 2

(***************************************************************************)
(* Claims about readstatus and the status and log commands (specification  *)
(* SpecStatus).                                                            *)
(***************************************************************************)
\* the text the device reported for key k, 'Unknown' when it reported none
reported_text(k) ==
    IF k \in device_status.keys THEN device_value(device_status, k) ELSE Unknown

\* the number the device reported for key k, 0 when it reported none
reported_number(k) ==
    IF k \notin device_status.keys THEN 0
    ELSE CASE k = "e" -> 12
           [] k = "r" -> device_status.secsleft
           [] k = "c" -> 3
           [] k = "d" -> 7

\* the temperature the device reported for key k (m / 10^s), 0 when it
\* reported none
reported_temperature(k) ==
    IF k \notin device_status.keys THEN [m |-> 0, s |-> 0]
    ELSE CASE k = "b" -> [m |-> 955, s |-> 1]
           [] k = "l" -> [m |-> 100, s |-> 0]

StatusCommandDone == call.cmd = "status" /\ call.pc = "done"

C19_MissingNonceFails ==
    (call.pc = "done" /\ "d" \notin device_status.keys)
        => (call.exc # "none" /\ ~call.returned)

\* C19 witness: a report with every key but d has been read and refused for
\* its missing nonce.
C19_ReportWithoutNonceRead ==
    /\ StatusCommandDone
    /\ device_status.keys = StatusKeys \ {"d"}
    /\ call.exc = missing_nonce_exc

\* C20: status decoding yields an active flag that is false when state is
\* 'Complete' or 'Inactive' and true for every other state, computed from
\* each status read.
C20_ActiveFlag ==
    (call.cmd = "log" /\ call.pc = "done" /\ call.returned)
        => /\ call.active.exc = "none"
           /\ call.active.value
                = (call.statusd.state \notin
                      { <<"C","o","m","p","l","e","t","e">>,
                        <<"I","n","a","c","t","i","v","e">> })

(***************************************************************************)
(* Claims about the order and the timing of sendprogram's steps.           *)
(***************************************************************************)
\* C21: sendprogram reads the status once before writing; if that read
\* fails, the operation ends with that error and CONTROL.TXT is left
\* unchanged; otherwise CONTROL.TXT is written exactly once, after the
\* initial read and before any poll read.
C21_ReadThenWriteOnce ==
    sess # <<>> =>
        LET s == sess[1]
        IN  /\ s.wrote <= 1
            /\ s.wrote = 1 => s.initial = "ok"
            /\ s.last_poll # "none" => (s.wrote = 1 /\ s.last_poll_at >= s.wrote_at)
            /\ s.initial \notin {"none", "ok"}
                  => /\ s.pc = "done"
                     /\ s.raised = s.initial
                     /\ s.wrote = 0
                     /\ CONTROL_TXT = <<>>
            /\ (s.initial = "ok" /\ s.pc # "assemble") => s.wrote = 1

\* the timing of the poll phase, in ticks of half a time unit
C22_PollTiming ==
    LET s == sess[1]
    IN  /\ s.last_poll # "none" => s.last_poll_at >= s.wrote_at + 4
        /\ s.last_poll \notin {"none", "ok"} => s.clock >= s.last_poll_end + 1
        /\ s.last_poll # "none" => s.last_poll_at - s.started_waiting < 10
        /\ s.last_poll = "ok" => s.pc \in {"report", "done"}

\* C22: sendprogram always terminates, whatever the device returns: the
\* first poll read happens no sooner than 2 time units after the write, each
\* failed poll read is followed by a 0.5-unit sleep, no poll read starts 5
\* or more time units after polling began, and no status read is made after
\* the first successful poll read (a nonce mismatch is not retried).
\* Termination is stated through the clock: an iteration of the poll loop
\* that does not end the loop advances the clock by at least one tick, and
\* (C22_PollTiming) no iteration starts once 10 ticks have passed.
C22_BoundedPolling ==
    /\ []C22_PollTiming
    /\ [][(sess[1].pc = "poll" /\ sess'[1].pc = "poll")
            => sess'[1].clock >= sess[1].clock + 1]_vars

\* a decimal numeral without zero padding
Unpadded(t) == AllDigits(t) /\ (Len(t) = 1 \/ Head(t) # "0")

step_triple(l) ==
    CASE l \in {Line_A, Line_Solitary} -> <<"3","|","9","5","|","A">>
      [] l = Line_B -> <<"5","|","8",".","5","|","B">>
      [] l = Line_C -> <<"7","|","4","|","C">>
      [] l = Line_Negative -> <<"-","5","|","5","0","|","D">>
      [] l = Line_Reserved -> <<"4","|","6","0","|","a","&","b","=","c">>
      [] l = Line_NoLabel -> <<"3","|","9","5","|">>
      [] l = Line_100 -> <<"9","|","1","0","0","|","E">>
      [] l = Line_Minus1 -> <<"9","|","-","1","|","E">>

\* the step lines of a body, in document order
step_lines(b) == SelectSeq(b, LAMBDA l : l \notin MarkerLines /\ l # Line_Blank)

\* the seconds|temperature|label groups of an encoded program, in order,
\* whatever brackets enclose them
encoded_triples(p) ==
    LET flat == replace(replace(replace(p, "(", "["), ")", "["), "]", "[")
    IN  SelectSeq(split(flat, "["), LAMBDA t : \E i \in 1..Len(t) : t[i] = "|")

Interleaved == \E q \in DOMAIN sess : sess[q].concurrent

\* call p has left the poll loop and is about to report success
AboutToReportSuccess(p) ==
    /\ sess[p].pc = "report"
    /\ report_of(sess[p].Status, sess[p].NewNonce) = "success"

=============================================================================
